---- MODULE Spec2Model ----
(***************************************************************************)
(* A model of fxc2-rs: the fxc2 command line front end (src/main.rs), the  *)
(* UsageError type of the library (src/errors.rs).                         *)
(*                                                                         *)
(* A String is a sequence of characters, a character a one-element TLA+    *)
(* string ("U+00E9" stands for the two-byte character e-acute).  Vec       *)
(* indices are 0-based as in the source: At(v, i) is v[i].                 *)
(***************************************************************************)
EXTENDS Integers, Sequences, FiniteSets, TLC

VARIABLES
    argv,           \* env::args().skip(1): the command line of the run
    args,           \* ParseOpt.args
    pc,             \* position of main
    model,          \* Option<CString>
    entry_point,    \* Option<CString>
    variable_name,  \* Option<String>
    output_file,    \* Option<String>
    defines,        \* Vec<(CString, CString)>
    d3d_defines,    \* Vec<D3D_SHADER_MACRO>
    input_file,     \* Option<Vec<u16>>
    call,           \* arguments of the D3DCompileFromFile calls made so far
    hr,             \* result of D3DCompileFromFile: "none", "ok", "err"
    blobs,          \* [output, errors]: the two Option<ID3DBlob> it hands back
    data,           \* Vec<u8> copied from the output blob
    file,           \* [opens, created, text]: File::create calls, the header file and its text
    stderr,         \* lines written by eprintln!/eprint!/a panic
    stdout,         \* lines written by println!
    exit_code,      \* Option<exit code of the process>
    ret,            \* the return statement main left through
    unit,           \* a ParseOpt method call on its own: [fn, option, before, ret]
    err,            \* a UsageError on its way into an ExitCode: [variant, token]
    fxc             \* a call of Compile, from bin/fxc or any caller: [caller, path, open, meta, read, result]

vars == <<argv, args, pc, model, entry_point, variable_name, output_file, defines,
          d3d_defines, input_file, call, hr, blobs, data, file, stderr, stdout,
          exit_code, ret, unit, err, fxc>>

\* ------------------------------------------------------------------ bounds

\* tokens placed around the base command line
MaxArgs == 2

\* length of the argument list of a ParseOpt whose methods are called on their own
MaxList == 3

\* ------------------------------------------------------------------ values

None == [some |-> FALSE, v |-> <<>>]
Some(x) == [some |-> TRUE, v |-> x]
NoIndex == [some |-> FALSE, v |-> 0]

SUCCESS == 0
FAILURE == 1
PANIC == 101

Min(a, b) == IF a < b THEN a ELSE b

At(v, i) == v[i + 1]

\* Vec::remove(i): the elements after i shift down by one
Remove(v, i) == SubSeq(v, 1, i) \o SubSeq(v, i + 2, Len(v))

Range(s) == {s[i] : i \in 1..Len(s)}

\* str::len of one character: its UTF-8 width
Utf8Width(c) == IF c = "U+00E9" THEN 2 ELSE 1

RECURSIVE ByteLen(_)
\* String::len(): bytes, not characters
ByteLen(s) == IF s = <<>> THEN 0 ELSE Utf8Width(Head(s)) + ByteLen(Tail(s))

\* Iterator::take(n).collect()
Take(s, n) == SubSeq(s, 1, Min(n, Len(s)))

\* Iterator::skip(n).collect()
Skip(s, n) == SubSeq(s, n + 1, Len(s))

\* ------------------------------------------------------------------ ParseOpt

end(a) == Len(a) = 0

\* get with a clone of the first token returned instead of the removed one
get_Peek(a) ==
    IF end(a) THEN [ret |-> None, args |-> a]
    ELSE [ret |-> Some(At(a, 0)), args |-> a]

\* ParseOpt::get: [ret, args]
get(a) ==
    IF end(a) THEN [ret |-> None, args |-> a]
    ELSE [ret |-> Some(At(a, 0)), args |-> Remove(a, 0)]

\* the closure with `chars.take(..)` lost: the whole rest must be the option
IsOption_Exact(i, option) ==
    LET first == IF Len(i) = 0 THEN None ELSE Some(i[1]) IN
    IF ByteLen(i) = 1 \/ (first # Some("-") /\ first # Some("/"))
    THEN FALSE
    ELSE Tail(i) = option

\* the closure with the test for '/' lost: only - is a switch character
IsOption_DashOnly(i, option) ==
    LET first == IF Len(i) = 0 THEN None ELSE Some(i[1]) IN
    IF ByteLen(i) = 1 \/ first # Some("-")
    THEN FALSE
    ELSE Take(Tail(i), Len(option)) = option

\* the closure of find_index: does argument i name the option
IsOption(i, option) ==
    LET first == IF Len(i) = 0 THEN None ELSE Some(i[1]) IN
    IF ByteLen(i) = 1 \/ (first # Some("-") /\ first # Some("/"))
    THEN FALSE
    ELSE Take(Tail(i), Len(option)) = option

RECURSIVE position(_, _, _)
\* Iterator::position from element k on: the index of the first match
position(a, option, k) ==
    IF k >= Len(a) THEN NoIndex
    ELSE IF IsOption(At(a, k), option) THEN [some |-> TRUE, v |-> k]
    ELSE position(a, option, k + 1)

\* find_index with the scan begun at the second token
find_index_FromSecond(a, option) == position(a, option, 1)

\* ParseOpt::find_index
find_index(a, option) == position(a, option, 0)

\* parse_one with a clone of the token returned instead of the removed one
parse_one_TokenKept(a, option) ==
    LET index == find_index(a, option) IN
    IF index.some
    THEN [ret |-> Some(At(a, index.v)), args |-> a]
    ELSE [ret |-> None, args |-> a]

\* ParseOpt::parse_one: [ret, args]
parse_one(a, option) ==
    LET index == find_index(a, option) IN
    IF index.some
    THEN [ret |-> Some(At(a, index.v)), args |-> Remove(a, index.v)]
    ELSE [ret |-> None, args |-> a]

\* parse_arg with the second `self.args.remove(index)` lost: a detached value
\* stays in the list
parse_arg_ValueKept(a, option) ==
    LET found == find_index(a, option) IN
    IF ~found.some THEN [ret |-> None, args |-> a]
    ELSE
        LET index == found.v
            opt_len == Len(option) + 1
            arg == At(a, index)
            arg_len == Len(arg)
        IN  IF arg_len > opt_len
            THEN [ret |-> Some(Skip(arg, opt_len)), args |-> Remove(a, index)]
            ELSE IF index + 1 < Len(a)
            THEN [ret |-> Some(At(a, index + 1)), args |-> Remove(a, index)]
            ELSE [ret |-> None, args |-> a]

\* ParseOpt::parse_arg: [ret, args]
parse_arg(a, option) ==
    LET found == find_index(a, option) IN
    IF ~found.some THEN [ret |-> None, args |-> a]
    ELSE
        LET index == found.v
            opt_len == Len(option) + 1
            arg == At(a, index)
            arg_len == Len(arg)
        IN  IF arg_len > opt_len
            THEN [ret |-> Some(Skip(arg, opt_len)), args |-> Remove(a, index)]
            ELSE IF index + 1 < Len(a)
            THEN [ret |-> Some(At(a, index + 1)),
                  args |-> Remove(Remove(a, index), index)]
            ELSE [ret |-> None, args |-> a]

\* ------------------------------------------------------------------ text

\* A line of output is a sequence of segments: the literal parts of a format
\* string and the values put in its holes.
Lit(s) == [kind |-> "lit", text |-> s, chars |-> <<>>]
Txt(cs) == [kind |-> "txt", text |-> "", chars |-> cs]

\* the three eprintln! of print_usage_arg
UsageArgLines ==
    << <<Lit("You have specified an argument that is not handled by fxc2")>>,
       <<Lit("This isn't a sign of disaster, odds are it will be very easy to add support for this argument.")>>,
       <<Lit("Review the meaning of the argument in the real fxc program, and then add it into fxc2.")>> >>

\* the eprintln! of print_usage_missing
UsageMissingLine(arg) ==
    <<Lit("fxc2 is missing the "), Lit(arg),
      Lit(" argument. We expected to receive this, and it's likely things will nmot work correctly without it. Review fxc2 and make sure things will work.")>>

\* the eprintln! of print_usage_toomany
UsageTooManyLine ==
    <<Lit("You specified multiple input files. We did not expect to receive this, and aren't prepared to handle multiple input files. You'll have to edit the source to behave the way you want.")>>

RECURSIVE Split(_, _)
\* str::split(ch): the pieces between the occurrences of ch, at least one piece
Split(s, ch) ==
    IF \E i \in 1..Len(s) : s[i] = ch
    THEN LET i == CHOOSE k \in 1..Len(s) : s[k] = ch /\ \A j \in 1..(k - 1) : s[j] # ch
         IN  <<SubSeq(s, 1, i - 1)>> \o Split(SubSeq(s, i + 1, Len(s)), ch)
    ELSE <<s>>

\* the body with splitn(2, '='): the value is all that follows the first =
DefinePair_SplitOnce(arg) ==
    LET eq == {i \in 1..Len(arg) : arg[i] = "="} IN
    IF eq = {} THEN <<arg, <<"1">>>>
    ELSE LET i == CHOOSE k \in eq : \A j \in eq : k <= j
         IN  <<SubSeq(arg, 1, i - 1), SubSeq(arg, i + 1, Len(arg))>>

\* the body of the -D loop: define.next().unwrap(), define.next().unwrap_or("1")
DefinePair(arg) ==
    LET define == Split(arg, "=") IN
    <<define[1], IF Len(define) >= 2 THEN define[2] ELSE <<"1">> >>

\* the array with `d3d_defines.push(D3D_SHADER_MACRO::default())` lost
Macros_NoTerminator(ds) ==
    [i \in 1..Len(ds) |-> [Name |-> Some(ds[i][1]), Definition |-> Some(ds[i][2])]]

\* the D3D_SHADER_MACRO array: one entry per define and the null terminator
Macros(ds) ==
    [i \in 1..Len(ds) |-> [Name |-> Some(ds[i][1]), Definition |-> Some(ds[i][2])]]
        \o <<[Name |-> None, Definition |-> None]>>

\* ------------------------------------------------------------------ command lines

Opt_help == <<"?">>
Opt_helpword == <<"h", "e", "l", "p">>
Opt_nologo == <<"n", "o", "l", "o", "g", "o">>
Opt_T == <<"T">>
Opt_E == <<"E">>
Opt_Vn == <<"V", "n">>
Opt_Fh == <<"F", "h">>
Opt_Vi == <<"V", "i">>
Opt_D == <<"D">>

\* the option names main looks for
HandledOptions ==
    {Opt_help, Opt_helpword, Opt_nologo, Opt_T, Opt_E, Opt_Vn, Opt_Fh, Opt_Vi, Opt_D}

\* the well-formed command line -Tps_2_0 /Emain -Fho in
BaseLine ==
    << <<"-", "T", "p", "s", "_", "2", "_", "0">>,
       <<"/", "E", "m", "a", "i", "n">>,
       <<"-", "F", "h", "o">>,
       <<"i", "n">> >>

\* the same in detached form, with a profile the table does not know, the two
\* options that are only acknowledged and a define:
\* /T x -E main /Fh o -nologo /Vi -D a=2=0 U+00E9
DetachedLine ==
    << <<"/", "T">>, <<"x">>, <<"-", "E">>, <<"m", "a", "i", "n">>,
       <<"/", "F", "h">>, <<"o">>, <<"-", "n", "o", "l", "o", "g", "o">>,
       <<"/", "V", "i">>, <<"-", "D">>, <<"a", "=", "2", "=", "0">>, <<"U+00E9">> >>

Heads == {SubSeq(BaseLine, 1, n) : n \in 0..Len(BaseLine)} \cup {DetachedLine}

\* the tokens placed before and after
Tokens ==
    { <<"/", "?">>,
      <<"-", "h", "e", "l", "p">>,
      <<"-", "T">>,
      <<"-", "V", "n">>,
      <<"/", "V", "n", "v">>,
      <<"-", "D">>,
      <<"/", "D", "A", "=", "1">>,
      <<"a", "=", "2", "=", "0">>,
      <<"-", "Z", "i">>,
      <<"/", "A", "A", "A", "A">> }

SeqsUpTo(S, n) == UNION {[1..k -> S] : k \in 0..n}

\* a head with at most MaxArgs tokens around it
CmdLines ==
    {x[1] \o x[2] \o x[3] :
        x \in {y \in SeqsUpTo(Tokens, MaxArgs) \X Heads \X SeqsUpTo(Tokens, MaxArgs) :
                  Len(y[1]) + Len(y[3]) <= MaxArgs}}

\* ------------------------------------------------------------------ main

NoCall == <<>>
NoBlobs == [output |-> None, errors |-> None]
NoFile == [opens |-> 0, created |-> FALSE, text |-> <<>>]
NoUnit == [fn |-> "none", option |-> <<>>, before |-> <<>>, ret |-> None]
NoErr == [variant |-> "none", token |-> <<>>]
NoFxc == [caller |-> "none", path |-> <<>>, open |-> "none", meta |-> "none", read |-> "none",
          result |-> "none"]

Init ==
    /\ argv \in CmdLines
    /\ args = argv
    /\ pc = "help"
    /\ model = None
    /\ entry_point = None
    /\ variable_name = None
    /\ output_file = None
    /\ defines = <<>>
    /\ d3d_defines = <<>>
    /\ input_file = None
    /\ call = NoCall
    /\ hr = "none"
    /\ blobs = NoBlobs
    /\ data = <<>>
    /\ file = NoFile
    /\ stderr = <<>>
    /\ stdout = <<>>
    /\ exit_code = None
    /\ ret = "none"
    /\ unit = NoUnit
    /\ err = NoErr
    /\ fxc = NoFxc

\* `return code` at the return statement `site`
Return(code, site) ==
    /\ pc' = "done"
    /\ exit_code' = Some(code)
    /\ ret' = site

\* what the argument parsing leaves alone
CompileUnchanged == UNCHANGED <<argv, call, hr, blobs, data, file, unit, err, fxc>>

\* Help with the `return` lost: the usage text is printed and the run goes on
Help_NoReturn ==
    /\ pc = "help"
    /\ LET q == parse_one(args, Opt_help)
           h == parse_one(q.args, Opt_helpword)
       IN  IF q.ret.some
           THEN /\ args' = q.args
                /\ stderr' = stderr \o UsageArgLines
           ELSE IF h.ret.some
           THEN /\ args' = h.args
                /\ stderr' = stderr \o UsageArgLines
           ELSE UNCHANGED <<args, stderr>>
    /\ pc' = "nologo"
    /\ UNCHANGED <<model, entry_point, variable_name, output_file, defines,
                   d3d_defines, input_file, stdout, exit_code, ret>>
    /\ CompileUnchanged

\* main.rs 176-178
Help ==
    /\ pc = "help"
    /\ LET q == parse_one(args, Opt_help)
           h == parse_one(q.args, Opt_helpword)
       IN  IF q.ret.some
           THEN /\ args' = q.args
                /\ stderr' = stderr \o UsageArgLines
                /\ Return(FAILURE, "help")
           ELSE IF h.ret.some
           THEN /\ args' = h.args
                /\ stderr' = stderr \o UsageArgLines
                /\ Return(FAILURE, "help")
           ELSE /\ pc' = "nologo"
                /\ UNCHANGED <<args, stderr, exit_code, ret>>
    /\ UNCHANGED <<model, entry_point, variable_name, output_file, defines,
                   d3d_defines, input_file, stdout>>
    /\ CompileUnchanged

\* main.rs 180
Nologo ==
    /\ pc = "nologo"
    /\ args' = parse_one(args, Opt_nologo).args
    /\ pc' = "model"
    /\ UNCHANGED <<model, entry_point, variable_name, output_file, defines,
                   d3d_defines, input_file, stdout, stderr, exit_code, ret>>
    /\ CompileUnchanged

\* main.rs 181-187
Model ==
    /\ pc = "model"
    /\ LET r == parse_arg(args, Opt_T) IN
       IF r.ret.some
       THEN /\ model' = r.ret
            /\ args' = r.args
            /\ pc' = "entry"
            /\ UNCHANGED <<stderr, exit_code, ret>>
       ELSE /\ stderr' = Append(stderr, UsageMissingLine("model"))
            /\ Return(FAILURE, "missing model")
            /\ UNCHANGED <<model, args>>
    /\ UNCHANGED <<entry_point, variable_name, output_file, defines,
                   d3d_defines, input_file, stdout>>
    /\ CompileUnchanged

\* main.rs 188-194
Entry ==
    /\ pc = "entry"
    /\ LET r == parse_arg(args, Opt_E) IN
       IF r.ret.some
       THEN /\ entry_point' = r.ret
            /\ args' = r.args
            /\ pc' = "vn"
            /\ UNCHANGED <<stderr, exit_code, ret>>
       ELSE /\ stderr' = Append(stderr, UsageMissingLine("entryPoint"))
            /\ Return(FAILURE, "missing entryPoint")
            /\ UNCHANGED <<entry_point, args>>
    /\ UNCHANGED <<model, variable_name, output_file, defines,
                   d3d_defines, input_file, stdout>>
    /\ CompileUnchanged

\* main.rs 195
Vn ==
    /\ pc = "vn"
    /\ LET r == parse_arg(args, Opt_Vn) IN
       /\ variable_name' = r.ret
       /\ args' = r.args
    /\ pc' = "fh"
    /\ UNCHANGED <<model, entry_point, output_file, defines, d3d_defines,
                   input_file, stdout, stderr, exit_code, ret>>
    /\ CompileUnchanged

\* the step with the `else { return print_usage_missing("outputFile") }` lost
Fh_NotChecked ==
    /\ pc = "fh"
    /\ LET r == parse_arg(args, Opt_Fh) IN
       /\ output_file' = r.ret
       /\ args' = r.args
    /\ pc' = "vi"
    /\ UNCHANGED <<stderr, exit_code, ret>>
    /\ UNCHANGED <<model, entry_point, variable_name, defines,
                   d3d_defines, input_file, stdout>>
    /\ CompileUnchanged

\* main.rs 196-202
Fh ==
    /\ pc = "fh"
    /\ LET r == parse_arg(args, Opt_Fh) IN
       IF r.ret.some
       THEN /\ output_file' = r.ret
            /\ args' = r.args
            /\ pc' = "vi"
            /\ UNCHANGED <<stderr, exit_code, ret>>
       ELSE /\ stderr' = Append(stderr, UsageMissingLine("outputFile"))
            /\ Return(FAILURE, "missing outputFile")
            /\ UNCHANGED <<output_file, args>>
    /\ UNCHANGED <<model, entry_point, variable_name, defines,
                   d3d_defines, input_file, stdout>>
    /\ CompileUnchanged

\* main.rs 203-205
Vi ==
    /\ pc = "vi"
    /\ LET r == parse_one(args, Opt_Vi) IN
       /\ args' = r.args
       /\ stdout' = IF r.ret.some
                    THEN Append(stdout, <<Lit("option "), Txt(r.ret.v),
                             Lit(" (Output include process details) acknowledged but ignored")>>)
                    ELSE stdout
    /\ pc' = "define"
    /\ UNCHANGED <<model, entry_point, variable_name, output_file, defines,
                   d3d_defines, input_file, stderr, exit_code, ret>>
    /\ CompileUnchanged

\* main.rs 206-225: one turn of the while loop; past it, the macro array
Define ==
    /\ pc = "define"
    /\ LET r == parse_arg(args, Opt_D) IN
       IF r.ret.some
       THEN /\ defines' = Append(defines, DefinePair(r.ret.v))
            /\ args' = r.args
            /\ UNCHANGED <<d3d_defines, pc>>
       ELSE /\ d3d_defines' = Macros(defines)
            /\ pc' = "input"
            /\ UNCHANGED <<defines, args>>
    /\ UNCHANGED <<model, entry_point, variable_name, output_file,
                   input_file, stdout, stderr, exit_code, ret>>
    /\ CompileUnchanged

\* String::encode_utf16 of one character of the alphabet (each is in the BMP)
CodeUnit(c) ==
    CASE c = "-" -> 45 [] c = "/" -> 47 [] c = "0" -> 48 [] c = "1" -> 49
      [] c = "2" -> 50 [] c = "=" -> 61 [] c = "?" -> 63 [] c = "A" -> 65
      [] c = "D" -> 68 [] c = "E" -> 69 [] c = "F" -> 70 [] c = "T" -> 84
      [] c = "V" -> 86 [] c = "Z" -> 90 [] c = "_" -> 95 [] c = "a" -> 97
      [] c = "e" -> 101 [] c = "g" -> 103 [] c = "h" -> 104 [] c = "i" -> 105
      [] c = "l" -> 108 [] c = "m" -> 109 [] c = "n" -> 110 [] c = "o" -> 111
      [] c = "p" -> 112 [] c = "s" -> 115 [] c = "v" -> 118 [] c = "x" -> 120
      [] c = "U+00E9" -> 233

encode_utf16(s) == [i \in 1..Len(s) |-> CodeUnit(s[i])]

\* main.rs 227-233
Input ==
    /\ pc = "input"
    /\ LET r == get(args) IN
       IF r.ret.some
       THEN /\ input_file' = Some(encode_utf16(r.ret.v))
            /\ args' = r.args
            /\ pc' = "toomany"
            /\ UNCHANGED <<stderr, exit_code, ret>>
       ELSE /\ stderr' = Append(stderr, UsageMissingLine("inputFile"))
            /\ Return(FAILURE, "missing inputFile")
            /\ UNCHANGED <<input_file, args>>
    /\ UNCHANGED <<model, entry_point, variable_name, output_file, defines,
                   d3d_defines, stdout>>
    /\ CompileUnchanged

\* main.rs 235-236
TooMany ==
    /\ pc = "toomany"
    /\ IF ~end(args)
       THEN /\ stderr' = Append(stderr, <<Lit("fxc2: Unhandled arguments:")>>)
            /\ pc' = "unhandled"
       ELSE /\ pc' = "varname"
            /\ UNCHANGED stderr
    /\ UNCHANGED <<args, model, entry_point, variable_name, output_file, defines,
                   d3d_defines, input_file, stdout, exit_code, ret>>
    /\ CompileUnchanged

\* main.rs 237-240: one turn of the while loop; past it, the return
Unhandled ==
    /\ pc = "unhandled"
    /\ LET r == get(args) IN
       IF r.ret.some
       THEN /\ stderr' = Append(stderr, <<Lit("  "), Txt(r.ret.v)>>)
            /\ args' = r.args
            /\ UNCHANGED <<pc, exit_code, ret>>
       ELSE /\ stderr' = Append(stderr, UsageTooManyLine)
            /\ Return(FAILURE, "too many")
            /\ UNCHANGED args
    /\ UNCHANGED <<model, entry_point, variable_name, output_file, defines,
                   d3d_defines, input_file, stdout>>
    /\ CompileUnchanged

Name(cs, pre) == [name |-> cs, prefix |-> pre]

PROFILE_PREFIX_TABLE ==
    << Name(<<"p", "s", "_", "2", "_", "0">>, <<"g", "_", "p", "s", "2", "0">>),
       Name(<<"p", "s", "_", "2", "_", "a">>, <<"g", "_", "p", "s", "2", "1">>),
       Name(<<"p", "s", "_", "2", "_", "b">>, <<"g", "_", "p", "s", "2", "1">>),
       Name(<<"p", "s", "_", "2", "_", "s", "w">>, <<"g", "_", "p", "s", "2", "f", "f">>),
       Name(<<"p", "s", "_", "3", "_", "0">>, <<"g", "_", "p", "s", "3", "0">>),
       Name(<<"p", "s", "_", "3", "_", "s", "w">>, <<"g", "_", "p", "s", "3", "f", "f">>),
       Name(<<"v", "s", "_", "1", "_", "1">>, <<"g", "_", "v", "s", "1", "1">>),
       Name(<<"v", "s", "_", "2", "_", "0">>, <<"g", "_", "v", "s", "2", "0">>),
       Name(<<"v", "s", "_", "2", "_", "a">>, <<"g", "_", "v", "s", "2", "1">>),
       Name(<<"v", "s", "_", "2", "_", "s", "w">>, <<"g", "_", "v", "s", "2", "f", "f">>),
       Name(<<"v", "s", "_", "3", "_", "0">>, <<"g", "_", "v", "s", "3", "0">>),
       Name(<<"v", "s", "_", "3", "_", "s", "w">>, <<"g", "_", "v", "s", "3", "f", "f">>) >>

RECURSIVE TableLoop(_, _, _, _)
\* main.rs 246-251: the for loop over the table from entry k on, with its break
TableLoop(k, vn, m, e) ==
    IF k > Len(PROFILE_PREFIX_TABLE) THEN vn
    ELSE LET i == PROFILE_PREFIX_TABLE[k] IN
         IF i.name = m THEN Some(i.prefix \o <<"_">> \o e)
         ELSE TableLoop(k + 1, vn, m, e)

\* the lookup with the first `if variable_name.is_none()` lost
DefaultVariableName_Overrides(vn, m, e) ==
    LET looked == TableLoop(1, vn, m, e)
    IN  IF ~looked.some THEN Some(<<"g", "_">> \o e) ELSE looked

\* main.rs 243-257: the variable name after the two `if variable_name.is_none()`
DefaultVariableName(vn, m, e) ==
    LET looked == IF ~vn.some THEN TableLoop(1, vn, m, e) ELSE vn
    IN  IF ~looked.some THEN Some(<<"g", "_">> \o e) ELSE looked

\* main.rs 243-262
VarName ==
    /\ pc = "varname"
    /\ variable_name' = DefaultVariableName(variable_name, model.v, entry_point.v)
    /\ stderr' = stderr \o
         << <<Lit("option -T (Shader Model/Profile) with arg '"), Txt(model.v), Lit("'")>>,
            <<Lit("option -E (Entry Point) with arg '"), Txt(entry_point.v), Lit("'")>>,
            <<Lit("option -Fh (Output File) with arg "), Txt(output_file.v)>>,
            <<Lit("option -Vn (Variable Name) with arg '"), Txt(variable_name'.v), Lit("'")>> >>
    /\ pc' = "compile"
    /\ UNCHANGED <<args, model, entry_point, output_file, defines,
                   d3d_defines, input_file, stdout, exit_code, ret>>
    /\ CompileUnchanged

Alphabet ==
    {"-", "/", "0", "1", "2", "=", "?", "A", "D", "E", "F", "T", "V", "Z", "_", "a",
     "e", "g", "h", "i", "l", "m", "n", "o", "p", "s", "v", "x", "U+00E9"}

\* String::from_utf16 of what encode_utf16 made
from_utf16(u) == [i \in 1..Len(u) |-> CHOOSE c \in Alphabet : CodeUnit(c) = u[i]]

\* the compiled bytes the external compiler may hand back
Blobs == {<<>>, <<200>>, <<68, 88, 66, 67, 128, 127, 255>>}

\* the text of the error blob
ErrorText == <<"e", "x">>

\* the outcomes of D3DCompileFromFile: the HRESULT and the two blobs.  The call is
\* handed two uninitialised Option<ID3DBlob>; what assume_init() reads back is
\* whatever the callee stored, a blob or none.
CompileOutcomes ==
    {[hr |-> "ok", output |-> Some(b), errors |-> None] : b \in Blobs}
        \cup {[hr |-> "ok", output |-> Some(<<>>), errors |-> Some(ErrorText)]}
        \cup {[hr |-> "ok", output |-> None, errors |-> None]}
        \cup {[hr |-> "err", output |-> None, errors |-> e] : e \in {None, Some(ErrorText)}}

\* main.rs 264-299: the echo of the call and the call itself, the library
\* answering with one of the given outcomes
CompileWith(outcomes) ==
    /\ pc = "compile"
    /\ stderr' = stderr \o
         << <<Lit("Calling D3DCompileFromFile(")>>,
            <<Lit("\t"), Txt(from_utf16(input_file.v)), Lit(",")>>,
            <<Lit("\t"), [kind |-> "macros", text |-> "", chars |-> d3d_defines], Lit(",")>>,
            <<Lit("\tD3D_COMPILE_STANDARD_FILE_INCLUDE,")>>,
            <<Lit("\t"), Txt(entry_point.v), Lit(",")>>,
            <<Lit("\t"), Txt(model.v), Lit(",")>>,
            <<Lit("\t0,")>>,
            <<Lit("\t0,")>>,
            <<Lit("\t"), Lit("{:p}"), Lit(",")>>,
            <<Lit("\t"), Lit("{:p}"), Lit(")")>> >>
    /\ call' = Append(call, [pFileName |-> input_file.v,
                             pDefines |-> d3d_defines,
                             pEntrypoint |-> entry_point.v,
                             pTarget |-> model.v,
                             Flags1 |-> 0,
                             Flags2 |-> 0])
    /\ \E o \in outcomes :
        /\ hr' = o.hr
        /\ blobs' = [output |-> o.output, errors |-> o.errors]
    /\ pc' = "hr"
    /\ UNCHANGED <<argv, args, model, entry_point, variable_name, output_file, defines,
                   d3d_defines, input_file, data, file, stdout, exit_code, ret, unit, err, fxc>>

\* main.rs 264-299
Compile == CompileWith(CompileOutcomes)

\* the check with the call tried again when it failed
CheckHr_Retry ==
    /\ pc = "hr"
    /\ IF hr = "err"
       THEN /\ stderr' = Append(stderr, <<Lit("Got an error while compiling:")>>)
            /\ pc' = "compile"
       ELSE /\ pc' = "output"
            /\ UNCHANGED stderr
    /\ UNCHANGED <<argv, args, model, entry_point, variable_name, output_file, defines,
                   d3d_defines, input_file, call, hr, blobs, data, file, stdout,
                   exit_code, ret, unit, err, fxc>>

\* main.rs 301-310
CheckHr ==
    /\ pc = "hr"
    /\ IF hr = "err"
       THEN /\ stderr' = IF blobs.errors.some
                         THEN stderr \o << <<Lit("Got an error while compiling:")>>,
                                           <<Txt(blobs.errors.v)>> >>
                         ELSE Append(stderr,
                                <<Lit("Got an error while compiling, but no error message from the function")>>)
            /\ Return(FAILURE, "compile error")
       ELSE /\ pc' = "output"
            /\ UNCHANGED <<stderr, exit_code, ret>>
    /\ UNCHANGED <<argv, args, model, entry_point, variable_name, output_file, defines,
                   d3d_defines, input_file, call, hr, blobs, data, file, stdout, unit, err, fxc>>

\* a panic of the main thread: its message on the error stream, exit code 101
Panic(msg) ==
    /\ stderr' = Append(stderr, <<Lit("thread 'main' panicked: "), Lit(msg)>>)
    /\ Return(PANIC, "panic")

\* main.rs 312-322
Output ==
    /\ pc = "output"
    /\ IF blobs.output.some
       THEN /\ data' = blobs.output.v
            /\ stdout' = Append(stdout, <<Lit("Output length: "),
                             [kind |-> "num", text |-> "", chars |-> <<Len(blobs.output.v)>>]>>)
            /\ pc' = "create"
            /\ UNCHANGED <<stderr, exit_code, ret>>
       ELSE /\ Panic("called Option::unwrap() on a None value")
            /\ UNCHANGED <<data, stdout>>
    /\ UNCHANGED <<argv, args, model, entry_point, variable_name, output_file, defines,
                   d3d_defines, input_file, call, hr, blobs, file, unit, err, fxc>>

\* main.rs 324: File::create(..).expect(..)
Create ==
    /\ pc = "create"
    /\ \/ /\ file' = [opens |-> file.opens + 1, created |-> TRUE, text |-> <<>>]
          /\ pc' = "write"
          /\ UNCHANGED <<stderr, exit_code, ret>>
       \/ /\ file' = [file EXCEPT !.opens = @ + 1]
          /\ Panic("Failed to create output file")
    /\ UNCHANGED <<argv, args, model, entry_point, variable_name, output_file, defines,
                   d3d_defines, input_file, call, hr, blobs, data, stdout, unit, err, fxc>>

\* the byte printed without the `as i8` cast
as_i8_Lost(byte) == byte

\* `as i8`
as_i8(byte) == IF byte < 128 THEN byte ELSE byte - 256

Digit(d) ==
    CASE d = 0 -> "0" [] d = 1 -> "1" [] d = 2 -> "2" [] d = 3 -> "3" [] d = 4 -> "4"
      [] d = 5 -> "5" [] d = 6 -> "6" [] d = 7 -> "7" [] d = 8 -> "8" [] d = 9 -> "9"

RECURSIVE Decimal(_)
Decimal(n) == IF n < 10 THEN <<Digit(n)>> ELSE Decimal(n \div 10) \o <<Digit(n % 10)>>

\* Display of an i8
Display(v) == IF v < 0 THEN <<"-">> \o Decimal(0 - v) ELSE Decimal(v)

\* "{:4}": a number is right-aligned in four columns
Width4(cs) == [i \in 1..(4 - Len(cs)) |-> " "] \o cs

RECURSIVE HeaderBody(_, _)
\* main.rs 327-336: the for loop from index i on
HeaderBody(d, i) ==
    IF i >= Len(d) THEN <<>>
    ELSE <<Txt(Width4(Display(as_i8(At(d, i)))))>>
           \o (IF i # Len(d) - 1 THEN <<Lit(",")>> ELSE <<>>)
           \o (IF i % 6 = 5 THEN <<Lit("\n")>> ELSE <<>>)
           \o HeaderBody(d, i + 1)

\* main.rs 326-337: everything written to the header
HeaderText(vn, d) ==
    <<Lit("const BYTE "), Txt(vn), Lit("[] =\n{\n")>> \o HeaderBody(d, 0) \o <<Lit("\n};")>>

\* the writes with their results dropped instead of unwrapped
Write_Unchecked ==
    /\ pc = "write"
    /\ LET text == HeaderText(variable_name.v, data) IN
       \E k \in 0..Len(text) : file' = [file EXCEPT !.text = SubSeq(text, 1, k)]
    /\ pc' = "finish"
    /\ UNCHANGED <<stderr, exit_code, ret>>
    /\ UNCHANGED <<argv, args, model, entry_point, variable_name, output_file, defines,
                   d3d_defines, input_file, call, hr, blobs, data, stdout, unit, err, fxc>>

\* main.rs 326-338: every write!(..).unwrap() succeeds, or one of them fails
Write ==
    /\ pc = "write"
    /\ LET text == HeaderText(variable_name.v, data) IN
       \/ /\ file' = [file EXCEPT !.text = text]
          /\ pc' = "finish"
          /\ UNCHANGED <<stderr, exit_code, ret>>
       \/ /\ \E k \in 0..(Len(text) - 1) : file' = [file EXCEPT !.text = SubSeq(text, 1, k)]
          /\ Panic("called Result::unwrap() on an Err value")
    /\ UNCHANGED <<argv, args, model, entry_point, variable_name, output_file, defines,
                   d3d_defines, input_file, call, hr, blobs, data, stdout, unit, err, fxc>>

\* main.rs 340-346
Finish ==
    /\ pc = "finish"
    /\ stdout' = Append(stdout, <<Lit("Wrote "),
                     [kind |-> "num", text |-> "", chars |-> <<Len(data)>>],
                     Lit(" bytes of shader output to "), Txt(output_file.v)>>)
    /\ Return(SUCCESS, "success")
    /\ UNCHANGED <<argv, args, model, entry_point, variable_name, output_file, defines,
                   d3d_defines, input_file, call, hr, blobs, data, file, stderr, unit, err, fxc>>

Next ==
    \/ Help \/ Nologo \/ Model \/ Entry \/ Vn \/ Fh \/ Vi \/ Define \/ Input
    \/ TooMany \/ Unhandled \/ VarName \/ Compile \/ CheckHr \/ Output \/ Create
    \/ Write \/ Finish

Spec == Init /\ [][Next]_vars

\* ------------------------------------------------------------------ the parse as a function

\* the return statements of the argument parsing
ParseErrors ==
    {"help", "missing model", "missing entryPoint", "missing outputFile",
     "missing inputFile", "too many"}

RECURSIVE DefineLoop(_, _)
\* main.rs 206-216: the while loop, [defines, args] when it ends
DefineLoop(a, ds) ==
    LET r == parse_arg(a, Opt_D) IN
    IF r.ret.some THEN DefineLoop(r.args, Append(ds, DefinePair(r.ret.v)))
    ELSE [defines |-> ds, args |-> a]

\* what main has parsed when it returns early or reaches the compile call
Parsed(site, m, e, vn, fh, ds, inp) ==
    [ret |-> site, model |-> m, entry_point |-> e, variable_name |-> vn,
     output_file |-> fh, defines |-> ds, input_file |-> inp]

\* main.rs 227-257, given what get() returned
ParseInput(m, e, vn, fh, ds, g) ==
    IF ~g.ret.some
    THEN Parsed("missing inputFile", m, e, vn, fh, ds, None)
    ELSE IF ~end(g.args)
    THEN Parsed("too many", m, e, vn, fh, ds, Some(encode_utf16(g.ret.v)))
    ELSE Parsed("none", m, e, DefaultVariableName(vn, m.v, e.v), fh, ds,
                Some(encode_utf16(g.ret.v)))

\* main.rs 196-225, given what parse_arg("Fh") returned
ParseOutputFile(m, e, vn, fh) ==
    IF ~fh.ret.some
    THEN Parsed("missing outputFile", m, e, vn, None, <<>>, None)
    ELSE LET d == DefineLoop(parse_one(fh.args, Opt_Vi).args, <<>>)
         IN  ParseInput(m, e, vn, fh.ret, d.defines, get(d.args))

\* main.rs 195, given what parse_arg("Vn") returned
ParseVariableName(m, e, vn) ==
    ParseOutputFile(m, e, vn.ret, parse_arg(vn.args, Opt_Fh))

\* main.rs 188-194, given what parse_arg("E") returned
ParseEntryPoint(m, e) ==
    IF ~e.ret.some
    THEN Parsed("missing entryPoint", m, None, None, None, <<>>, None)
    ELSE ParseVariableName(m, e.ret, parse_arg(e.args, Opt_Vn))

\* main.rs 181-187, given what parse_arg("T") returned
ParseModel(t) ==
    IF ~t.ret.some
    THEN Parsed("missing model", None, None, None, None, <<>>, None)
    ELSE ParseEntryPoint(t.ret, parse_arg(t.args, Opt_E))

\* main.rs 176-180, given what parse_one("?") returned
ParseHelp(q) ==
    IF q.ret.some \/ parse_one(q.args, Opt_helpword).ret.some
    THEN Parsed("help", None, None, None, None, <<>>, None)
    ELSE ParseModel(parse_arg(parse_one(q.args, Opt_nologo).args, Opt_T))

\* main.rs 176-257 as a function of the command line: the return statement the
\* argument parsing leaves through ("none": the compile call is reached) and the
\* values parsed by then
ParseRun(a) == ParseHelp(parse_one(a, Opt_help))

\* the values of the run, as Parsed puts them
ParsedNow ==
    Parsed(IF ret \in ParseErrors THEN ret ELSE "none", model, entry_point,
           variable_name, output_file, defines, input_file)

\* ------------------------------------------------------------------ ParseOpt on its own

\* the tokens of the argument lists the methods are called on
UnitTokens ==
    { <<"/", "T">>,
      <<"-", "T", "x">>,
      <<"-", "E">>,
      <<"-", "F", "h">>,
      <<"/", "F", "h", "o">>,
      <<"-", "D">>,
      <<"/", "D", "A", "=", "1">>,
      <<"x">>,
      <<"-">>,
      <<>> }

\* ParseOpt::new on any list of up to MaxList tokens
InitUnit ==
    /\ args \in SeqsUpTo(UnitTokens, MaxList)
    /\ argv = args
    /\ pc = "unit"
    /\ model = None
    /\ entry_point = None
    /\ variable_name = None
    /\ output_file = None
    /\ defines = <<>>
    /\ d3d_defines = <<>>
    /\ input_file = None
    /\ call = NoCall
    /\ hr = "none"
    /\ blobs = NoBlobs
    /\ data = <<>>
    /\ file = NoFile
    /\ stderr = <<>>
    /\ stdout = <<>>
    /\ exit_code = None
    /\ ret = "none"
    /\ unit = NoUnit
    /\ err = NoErr
    /\ fxc = NoFxc

\* one method call: it changes the list and returns; the run of main is not involved
MainUnchanged ==
    /\ pc' = "returned"
    /\ UNCHANGED <<argv, model, entry_point, variable_name, output_file, defines,
                   d3d_defines, input_file, call, hr, blobs, data, file, stderr, stdout,
                   exit_code, ret, err, fxc>>

\* args.find_index(option)
CallFindIndex ==
    /\ pc = "unit"
    /\ \E option \in HandledOptions :
        /\ unit' = [fn |-> "find_index", option |-> option, before |-> args,
                    ret |-> find_index(args, option)]
        /\ UNCHANGED args
    /\ MainUnchanged

\* args.parse_one(option)
CallParseOne ==
    /\ pc = "unit"
    /\ \E option \in HandledOptions :
        LET r == parse_one(args, option) IN
        /\ unit' = [fn |-> "parse_one", option |-> option, before |-> args, ret |-> r.ret]
        /\ args' = r.args
    /\ MainUnchanged

\* args.parse_arg(option)
CallParseArg ==
    /\ pc = "unit"
    /\ \E option \in HandledOptions :
        LET r == parse_arg(args, option) IN
        /\ unit' = [fn |-> "parse_arg", option |-> option, before |-> args, ret |-> r.ret]
        /\ args' = r.args
    /\ MainUnchanged

\* args.get()
CallGet ==
    /\ pc = "unit"
    /\ LET r == get(args) IN
        /\ unit' = [fn |-> "get", option |-> <<>>, before |-> args, ret |-> r.ret]
        /\ args' = r.args
    /\ MainUnchanged

NextUnit == CallFindIndex \/ CallParseOne \/ CallParseArg \/ CallGet

SpecUnit == InitUnit /\ [][NextUnit]_vars

\* ------------------------------------------------------------------ claims

HasOption(a, option) == \E i \in 1..Len(a) : IsOption(a[i], option)

ErrorReturns == ParseErrors \cup {"compile error"}

\* the line each error return prints last
LastLineOf(site) ==
    CASE site = "help" -> UsageArgLines[3]
      [] site = "missing model" -> UsageMissingLine("model")
      [] site = "missing entryPoint" -> UsageMissingLine("entryPoint")
      [] site = "missing outputFile" -> UsageMissingLine("outputFile")
      [] site = "missing inputFile" -> UsageMissingLine("inputFile")
      [] site = "too many" -> UsageTooManyLine

Failed == exit_code.some /\ exit_code.v # SUCCESS

\* C1: every listed error outcome (help asked for with ? or help, no model, entry
\* point, output file or input file, more than one input file, an error of the
\* compile call) ends the run with a non-zero exit code after its message was
\* printed, the header file is not created, and for the errors of the argument
\* parsing the compile call is never made.
C1_ErrorsAbort ==
    /\ ret \in ErrorReturns =>
          /\ pc = "done" /\ Failed
          /\ stderr # <<>>
          /\ file = NoFile
    /\ ret \in ParseErrors =>
          /\ stderr[Len(stderr)] = LastLineOf(ret)
          /\ call = NoCall
    /\ ret = "compile error" =>
          stderr[Len(stderr) - 1] = <<Lit("Got an error while compiling:")>>
            \/ stderr[Len(stderr)] =
                 <<Lit("Got an error while compiling, but no error message from the function")>>
    /\ pc = "done" =>
          /\ (HasOption(argv, Opt_help) \/ HasOption(argv, Opt_helpword)) => ret = "help"
          /\ (\E o \in {Opt_T, Opt_E, Opt_Fh} : ~HasOption(argv, o)) => ret \in ParseErrors
          /\ hr = "err" => ret = "compile error"

\* a run that reached the compile call and got an error back
C1_Witness == ret = "compile error" /\ Failed /\ Len(call) = 1 /\ ~blobs.errors.some

IsSwitch(t) == Len(t) >= 1 /\ t[1] \in {"-", "/"}

\* a token that starts with - or / and names no option main looks for
IsUnknown(t) == IsSwitch(t) /\ \A o \in HandledOptions : ~IsOption(t, o)

\* C2: a command line that holds an unknown argument (/AAAA, -Zi) never reaches
\* the compile call: the run ends with a printed message and a non-zero exit code.
C2_UnknownArgumentAborts ==
    (\E i \in 1..Len(argv) : IsUnknown(argv[i])) =>
        /\ call = NoCall
        /\ pc = "done" => (Failed /\ stderr # <<>> /\ ret \in ParseErrors)

\* the compiler-flag switches of the command line surface (they take no argument)
FlagSwitches ==
    {<<"Z", "i">>, <<"O", "0">>, <<"O", "1">>, <<"O", "2">>, <<"O", "3">>, <<"G", "e", "c">>}

IsFlagSwitch(t) == IsSwitch(t) /\ Tail(t) \in FlagSwitches

\* C3: the flag bitmask handed to the compile call mirrors the compiler-flag
\* switches of the command line: it is 0 exactly when no such switch was given.
C3_FlagsMirrorSwitches ==
    \A k \in 1..Len(call) :
        (call[k].Flags1 = 0) <=> ~(\E i \in 1..Len(argv) : IsFlagSwitch(argv[i]))

\* the options that take an argument
ArgOptions == {Opt_T, Opt_E, Opt_Vn, Opt_Fh, Opt_D}

\* the first token of list a that names the option is a[k]
FirstOption(a, k, option) ==
    /\ IsOption(a[k], option)
    /\ \A j \in 1..(k - 1) : ~IsOption(a[j], option)

\* list a with the tokens a[i..j] replaced by the tokens of t
Replace(a, i, j, t) == SubSeq(a, 1, i - 1) \o t \o SubSeq(a, j + 1, Len(a))

\* C4: attached and detached option arguments are equivalent.  When parse_arg(o)
\* was called on a list whose token for o carries the value v attached (/ov), or
\* carries it as the next token (/o v, v not empty), it returned v, removed the
\* token(s) of the option and left the other tokens in their order; and the call
\* on the same list with the option in the other form returns and leaves the same.
C4_AttachedDetachedEquivalent ==
    (unit.fn = "parse_arg" /\ unit.option \in ArgOptions) =>
        LET o == unit.option
            L == unit.before
            n == Len(o) + 1
        IN  \A k \in 1..Len(L) : FirstOption(L, k, o) =>
              /\ Len(L[k]) > n =>
                    LET v == SubSeq(L[k], n + 1, Len(L[k]))
                        rest == Replace(L, k, k, <<>>)
                        twin == Replace(L, k, k, <<SubSeq(L[k], 1, n), v>>)
                    IN  /\ unit.ret = Some(v)
                        /\ args = rest
                        /\ parse_arg(twin, o) = [ret |-> Some(v), args |-> rest]
              /\ (Len(L[k]) = n /\ k < Len(L) /\ L[k + 1] # <<>>) =>
                    LET v == L[k + 1]
                        rest == Replace(L, k, k + 1, <<>>)
                        twin == Replace(L, k, k + 1, <<L[k] \o v>>)
                    IN  /\ unit.ret = Some(v)
                        /\ args = rest
                        /\ parse_arg(twin, o) = [ret |-> Some(v), args |-> rest]

\* parse_arg("Fh") took /Fh o out of the middle of a list
C4_Witness ==
    /\ unit.fn = "parse_arg" /\ unit.option = Opt_Fh
    /\ unit.before = << <<"x">>, <<"-", "F", "h">>, <<"/", "D", "A", "=", "1">> >>
    /\ unit.ret = Some(<<"/", "D", "A", "=", "1">>)
    /\ args = << <<"x">> >>

SwitchOf(c) == IF c = "-" THEN "/" ELSE "-"

\* list a with the switch character of its token i replaced by the other one
Flip(a, i) == [a EXCEPT ![i] = <<SwitchOf(a[i][1])>> \o Tail(a[i])]

\* a text with every - read as /
Slashed(cs) == [k \in 1..Len(cs) |-> IF cs[k] = "-" THEN "/" ELSE cs[k]]
SlashedOpt(x) == IF x.some THEN Some(Slashed(x.v)) ELSE x
SlashedList(a) == [k \in 1..Len(a) |-> Slashed(a[k])]
SlashedCall(r) == [ret |-> SlashedOpt(r.ret), args |-> SlashedList(r.args)]
SlashedUnits(x) ==
    IF x.some THEN Some([k \in 1..Len(x.v) |-> IF x.v[k] = CodeUnit("-") THEN CodeUnit("/") ELSE x.v[k]])
    ELSE x
SlashedParsed(p) ==
    Parsed(p.ret, SlashedOpt(p.model), SlashedOpt(p.entry_point),
           SlashedOpt(p.variable_name), SlashedOpt(p.output_file),
           [k \in 1..Len(p.defines) |-> <<Slashed(p.defines[k][1]), Slashed(p.defines[k][2])>>],
           SlashedUnits(p.input_file))

\* every switch token of the list names one option main handles, no option but D
\* is named twice, and an option in the detached form is followed by a plain token
UsedAsSwitches(a) ==
    /\ \A i \in 1..Len(a) : IsSwitch(a[i]) => \E o \in HandledOptions : IsOption(a[i], o)
    /\ \A o \in HandledOptions \ {Opt_D} :
          Cardinality({i \in 1..Len(a) : IsOption(a[i], o)}) <= 1
    /\ \A i \in 1..Len(a) : \A o \in ArgOptions :
          (IsOption(a[i], o) /\ Len(a[i]) = Len(o) + 1) =>
              (i < Len(a) /\ ~IsSwitch(a[i + 1]))

\* the result of the method call of this state, made on list a instead
SameCall(a) ==
    CASE unit.fn = "find_index" -> [ret |-> find_index(a, unit.option), args |-> a]
      [] unit.fn = "parse_one" -> parse_one(a, unit.option)
      [] unit.fn = "parse_arg" -> parse_arg(a, unit.option)
      [] unit.fn = "get" -> get(a)

\* the command lines of main and the argument lists of single method calls
InitAll == Init \/ InitUnit

NextAll == Next \/ NextUnit

SpecAll == InitAll /\ [][NextAll]_vars

\* C5 as claimed: replacing the leading - of any token by / (or the reverse)
\* changes neither the result of find_index, parse_one or parse_arg for any option
\* name nor the final outcome of the run.
C5_SwitchCharsInterchangeable ==
    /\ (pc = "returned" /\ unit.fn # "get") =>
          \A i \in 1..Len(unit.before) : IsSwitch(unit.before[i]) =>
              SameCall(Flip(unit.before, i)).ret = unit.ret
    /\ pc = "help" =>
          \A i \in 1..Len(argv) : IsSwitch(argv[i]) =>
              ParseRun(Flip(argv, i)) = ParseRun(argv)

\* C5 (amended): the replacement changes the result of find_index for no option
\* name; parse_one and parse_arg remove the same tokens and return the same text,
\* and the run parses the same values and leaves through the same return, up to
\* the replaced character itself where the token is returned or stored as it was
\* written (the token parse_one returns, a detached value, the input file); when
\* every switch token is used as a switch the outcome of the run is the same.
\* The values the run holds are those of ParseRun.
C5_SwitchCharsAmended ==
    /\ (pc = "returned" /\ unit.fn # "get") =>
          \A i \in 1..Len(unit.before) : IsSwitch(unit.before[i]) =>
              LET r == SameCall(Flip(unit.before, i)) IN
              /\ unit.fn = "find_index" => r.ret = unit.ret
              /\ r.ret.some = unit.ret.some
              /\ unit.fn # "find_index" =>
                    /\ SlashedCall(r) = SlashedCall([ret |-> unit.ret, args |-> args])
                    /\ r.ret = unit.ret \/ r.args = args
    /\ pc = "help" =>
          LET p == ParseRun(argv)
              same == UsedAsSwitches(argv)
          IN  \A i \in 1..Len(argv) : IsSwitch(argv[i]) =>
                LET f == ParseRun(Flip(argv, i)) IN
                IF same THEN f = p
                ELSE f.ret = p.ret /\ SlashedParsed(f) = SlashedParsed(p)
    /\ (ret \in ParseErrors \/ pc \in {"compile", "hr"}) => ParsedNow = ParseRun(argv)

\* -Tps_2_0 /Emain -Fho /DA=1 was parsed up to the missing input file; so is
\* the same line with -DA=1
C5_Witness ==
    /\ pc = "done" /\ ret = "missing inputFile"
    /\ argv = << <<"-", "T", "p", "s", "_", "2", "_", "0">>, <<"/", "E", "m", "a", "i", "n">>,
                 <<"-", "F", "h", "o">>, <<"/", "D", "A", "=", "1">> >>
    /\ ParseRun(Flip(argv, 4)) = ParsedNow
    /\ defines = << <<<<"A">>, <<"1">>>> >>

\* an option in the detached form, without its value
IsBare(t) == \E o \in ArgOptions : IsOption(t, o) /\ Len(t) = Len(o) + 1

\* every detached option of the list is followed by a plain token, its value
DetachedValuesPlain(a) ==
    \A i \in 1..Len(a) : IsBare(a[i]) => (i < Len(a) /\ ~IsSwitch(a[i + 1]))

RECURSIVE DefinesFrom(_, _)
\* the name/value pairs of the -D occurrences of list a from token i on, in order
DefinesFrom(a, i) ==
    IF i > Len(a) THEN <<>>
    ELSE IF ~IsOption(a[i], Opt_D) THEN DefinesFrom(a, i + 1)
    ELSE IF Len(a[i]) > 2
    THEN <<DefinePair(SubSeq(a[i], 3, Len(a[i])))>> \o DefinesFrom(a, i + 1)
    ELSE <<DefinePair(a[i + 1])>> \o DefinesFrom(a, i + 2)

\* main is past the -D loop
PastDefines ==
    \/ pc \in {"input", "toomany", "unhandled", "varname", "compile", "hr", "output",
               "create", "write", "finish"}
    \/ pc = "done" /\ ret \notin {"help", "missing model", "missing entryPoint",
                                  "missing outputFile"}

VnOf(a) ==
    LET at == {i \in 1..Len(a) : IsOption(a[i], Opt_Vn)} IN
    IF at = {} THEN None
    ELSE LET i == CHOOSE j \in at : \A k \in at : j <= k IN
         IF Len(a[i]) > 3 THEN Some(SubSeq(a[i], 4, Len(a[i]))) ELSE Some(a[i + 1])

\* the prefix of the table entry named m, "g" without one
PrefixOf(m) ==
    LET at == {k \in 1..Len(PROFILE_PREFIX_TABLE) : PROFILE_PREFIX_TABLE[k].name = m} IN
    IF at = {} THEN <<"g">>
    ELSE PROFILE_PREFIX_TABLE[CHOOSE k \in at : TRUE].prefix

\* C7: the output variable name is derived from the other options when -Vn is
\* absent.  The step of main that settles the name leaves a given -Vn value
\* verbatim (on a command line whose detached options are each followed by their
\* value, the value of its first -Vn token) and otherwise sets
\* prefix + "_" + entry point, the prefix being that of the one table entry whose
\* name equals the -T profile exactly, "g" when none does; no profile name occurs
\* twice in the table.
C7_VariableNameDerived ==
    [][pc = "varname" =>
         /\ \A j, k \in 1..Len(PROFILE_PREFIX_TABLE) :
               PROFILE_PREFIX_TABLE[j].name = PROFILE_PREFIX_TABLE[k].name => j = k
         /\ DetachedValuesPlain(argv) => variable_name = VnOf(argv)
         /\ variable_name' =
               IF variable_name.some THEN variable_name
               ELSE Some(PrefixOf(model.v) \o <<"_">> \o entry_point.v)]_vars

\* without -Vn, -Tps_2_0 /Emain was given the name g_ps20_main
C7_Witness ==
    /\ pc = "compile"
    /\ VnOf(argv) = None
    /\ model = Some(<<"p", "s", "_", "2", "_", "0">>)
    /\ variable_name = Some(<<"g", "_", "p", "s", "2", "0", "_", "m", "a", "i", "n">>)

\* C8: a run is a single pass with no retry.  The compile call is made at most
\* once and only with argument parsing and default derivation completed without
\* an error return (every parsed value and the variable name set, the argument
\* list used up, the macro array built); the header file is opened at most once
\* and only after that call returned success, and written only when opened; in
\* every state after a failed call there is still one call and no file.
C8_SinglePass ==
    /\ Len(call) <= 1
    /\ Len(call) = 1 =>
          /\ model.some /\ entry_point.some /\ output_file.some /\ input_file.some
          /\ variable_name.some
          /\ args = <<>>
          /\ d3d_defines = Macros(defines)
          /\ ret \notin ParseErrors
          /\ pc \in {"hr", "output", "create", "write", "finish", "done"}
    /\ file.opens <= 1
    /\ file.opens = 1 => (Len(call) = 1 /\ hr = "ok" /\ blobs.output.some)
    /\ file.text # <<>> => (file.created /\ file.opens = 1)
    /\ hr = "err" => (Len(call) = 1 /\ file = NoFile /\ pc \in {"hr", "done"})
    /\ Len(call) = 0 => (hr = "none" /\ file = NoFile)

\* the run ended after the call failed: one call, no file
C8_Witness ==
    /\ pc = "done" /\ ret = "compile error"
    /\ hr = "err" /\ Len(call) = 1
    /\ file = NoFile

\* the tokens main.rs 176-216 leave in the argument list of command line a
LeftAfterOptions(a) ==
    LET t == parse_arg(parse_one(a, Opt_nologo).args, Opt_T)
        e == parse_arg(t.args, Opt_E)
        vn == parse_arg(e.args, Opt_Vn)
        fh == parse_arg(vn.args, Opt_Fh)
    IN  DefineLoop(parse_one(fh.args, Opt_Vi).args, <<>>).args

\* C9: every terminating run ends in exactly one of two outcomes, exit code 0 or
\* a non-zero code, and no run has an exit code before it ends.  Exit code 0 is
\* returned only when -T, -E and -Fh each had a value, exactly one token, the
\* input file, was left after the options, the one compile call succeeded and
\* the whole header was written; every non-zero exit has its diagnostic as the
\* last thing on the error stream.
C9_ExitCodes ==
    /\ exit_code.some <=> pc = "done"
    /\ pc = "done" =>
          /\ exit_code.v \in {SUCCESS, FAILURE, PANIC}
          /\ exit_code.v = SUCCESS <=> ret = "success"
          /\ exit_code.v = FAILURE <=> ret \in ErrorReturns
          /\ exit_code.v = PANIC <=> ret = "panic"
    /\ ret = "success" =>
          /\ pc = "done"
          /\ \A o \in {Opt_T, Opt_E, Opt_Fh} : HasOption(argv, o)
          /\ model.some /\ entry_point.some /\ output_file.some
          /\ LET left == LeftAfterOptions(argv) IN
                /\ Len(left) = 1
                /\ input_file = Some(encode_utf16(left[1]))
          /\ args = <<>>
          /\ Len(call) = 1 /\ hr = "ok" /\ blobs.output.some
          /\ file = [opens |-> 1, created |-> TRUE,
                     text |-> HeaderText(variable_name.v, blobs.output.v)]
    /\ (pc = "done" /\ Failed) =>
          /\ stderr # <<>>
          /\ ret \in ParseErrors => stderr[Len(stderr)] = LastLineOf(ret)
          /\ ret = "compile error" =>
                \/ /\ blobs.errors.some
                   /\ SubSeq(stderr, Len(stderr) - 1, Len(stderr)) =
                         << <<Lit("Got an error while compiling:")>>, <<Txt(blobs.errors.v)>> >>
                \/ /\ ~blobs.errors.some
                   /\ stderr[Len(stderr)] =
                         <<Lit("Got an error while compiling, but no error message from the function")>>
          /\ ret = "panic" => stderr[Len(stderr)][1] = Lit("thread 'main' panicked: ")

\* a run that wrote the header of a seven byte blob and returned 0
C9_Witness ==
    /\ pc = "done" /\ exit_code = Some(SUCCESS)
    /\ Len(data) = 7
    /\ file.text = HeaderText(variable_name.v, data)

\* ------------------------------------------------------------------ errors.rs

\* errors.rs 5-18: the values of the enum
UsageError ==
    {[variant |-> v, token |-> t] :
        v \in {"UnknownArgument", "RequiresArg", "TooManyFiles"}, t \in Tokens \cup UnitTokens}
        \cup {[variant |-> "HelpRequested", token |-> <<>>]}

\* errors.rs 6-17: the Display the #[error(..)] attributes derive
fmt(e) ==
    CASE e.variant = "UnknownArgument" ->
           <<Lit("Unknown or invalid option '"), Txt(e.token), Lit("', use /? for help")>>
      [] e.variant = "RequiresArg" ->
           <<Lit("'"), Txt(e.token),
             Lit("' option requires a parameter, use /? to get usage information")>>
      [] e.variant = "TooManyFiles" ->
           <<Lit("Too many files specified ('"), Txt(e.token),
             Lit("' was the last one), use /? to get usage information")>>
      [] e.variant = "HelpRequested" ->
           <<Lit("Check https://learn.microsoft.com/en-us/windows/win32/direct3dtools/dx-graphics-tools-fxc-syntax for usage information.")>>

\* a UsageError about to be converted; no run of main is involved
InitErr ==
    /\ err \in UsageError
    /\ pc = "from"
    /\ argv = <<>>
    /\ args = <<>>
    /\ model = None
    /\ entry_point = None
    /\ variable_name = None
    /\ output_file = None
    /\ defines = <<>>
    /\ d3d_defines = <<>>
    /\ input_file = None
    /\ call = NoCall
    /\ hr = "none"
    /\ blobs = NoBlobs
    /\ data = <<>>
    /\ file = NoFile
    /\ stderr = <<>>
    /\ stdout = <<>>
    /\ exit_code = None
    /\ ret = "none"
    /\ unit = NoUnit
    /\ fxc = NoFxc

\* what the conversion leaves alone
FromUnchanged ==
    UNCHANGED <<argv, args, model, entry_point, variable_name, output_file, defines,
                d3d_defines, input_file, call, hr, blobs, data, file, stdout, ret,
                unit, err, fxc>>

\* errors.rs 22: eprint!("{err}"), the message without a line end
from_eprint ==
    /\ pc = "from"
    /\ stderr' = Append(stderr, fmt(err))
    /\ pc' = "eprinted"
    /\ UNCHANGED exit_code
    /\ FromUnchanged

\* the conversion with ExitCode::SUCCESS for the help request
from_return_HelpSucceeds ==
    /\ pc = "eprinted"
    /\ exit_code' = IF err.variant = "HelpRequested" THEN Some(SUCCESS) ELSE Some(FAILURE)
    /\ pc' = "converted"
    /\ UNCHANGED stderr
    /\ FromUnchanged

\* errors.rs 23: the value of the function
from_return ==
    /\ pc = "eprinted"
    /\ exit_code' = Some(FAILURE)
    /\ pc' = "converted"
    /\ UNCHANGED stderr
    /\ FromUnchanged

NextErr == from_eprint \/ from_return

SpecErr == InitErr /\ [][NextErr]_vars

\* C10: converting any UsageError into an exit code yields the failure code,
\* never success, with that error's message written to the error stream before
\* the code exists, and nothing else written; the message of UnknownArgument,
\* RequiresArg and TooManyFiles holds the token the error carries.
C10_UsageErrorIsFailure ==
    /\ exit_code.some => (pc = "converted" /\ exit_code.v = FAILURE /\ exit_code.v # SUCCESS)
    /\ pc = "converted" => exit_code.some
    /\ pc \in {"eprinted", "converted"} =>
          /\ Len(stderr) = 1
          /\ stderr[1] =
               (CASE err.variant = "UnknownArgument" ->
                       <<Lit("Unknown or invalid option '"), Txt(err.token),
                         Lit("', use /? for help")>>
                  [] err.variant = "RequiresArg" ->
                       <<Lit("'"), Txt(err.token),
                         Lit("' option requires a parameter, use /? to get usage information")>>
                  [] err.variant = "TooManyFiles" ->
                       <<Lit("Too many files specified ('"), Txt(err.token),
                         Lit("' was the last one), use /? to get usage information")>>
                  [] err.variant = "HelpRequested" ->
                       <<Lit("Check https://learn.microsoft.com/en-us/windows/win32/direct3dtools/dx-graphics-tools-fxc-syntax for usage information.")>>)
          /\ err.variant # "HelpRequested" =>
                \E i \in 1..Len(stderr[1]) : stderr[1][i] = Txt(err.token)
    /\ pc = "from" => stderr = <<>>

\* TooManyFiles("/AAAA") was converted: its message is out and the code is 1
C10_Witness ==
    /\ pc = "converted"
    /\ err = [variant |-> "TooManyFiles", token |-> <<"/", "A", "A", "A", "A">>]
    /\ exit_code = Some(FAILURE)
    /\ stderr[1][2] = Txt(<<"/", "A", "A", "A", "A">>)

\* ------------------------------------------------------------------ ParseOpt, further claims

\* token t has more than one character, starts with - or / and its characters
\* after the switch character begin with o
Names(t, o) ==
    /\ Len(t) > 1
    /\ t[1] \in {"-", "/"}
    /\ Len(t) - 1 >= Len(o)
    /\ SubSeq(t, 2, Len(o) + 1) = o

\* the positions of list a whose token names o
Naming(a, o) == {i \in 1..Len(a) : Names(a[i], o)}

\* the least number of a non-empty set of numbers
Least(S) == CHOOSE i \in S : \A j \in S : i <= j

\* C11: parse_arg returns a value exactly when the option was found and removed.
\* A call that returned nothing (no token names o, or the first token naming o is
\* the last of the list and has no attached value) left the list as it was; a call
\* that returned a value took the first token naming o (and, in the detached form,
\* the token after it) out of the list and nothing else.  parse_one took exactly
\* the one token it returned, and nothing when it returned nothing.
C11_ReturnsIffRemoved ==
    (pc = "returned" /\ unit.fn \in {"parse_arg", "parse_one"}) =>
        LET o == unit.option
            L == unit.before
            M == Naming(L, o)
        IN  /\ unit.ret.some <=> args # L
            /\ M = {} => (~unit.ret.some /\ args = L)
            /\ M # {} =>
                 LET k == Least(M) IN
                 IF unit.fn = "parse_one"
                 THEN /\ unit.ret = Some(L[k])
                      /\ args = Replace(L, k, k, <<>>)
                      /\ Len(args) = Len(L) - 1
                 ELSE IF Len(L[k]) > Len(o) + 1
                 THEN /\ unit.ret.some
                      /\ args = Replace(L, k, k, <<>>)
                 ELSE IF k < Len(L)
                 THEN /\ unit.ret.some
                      /\ args = Replace(L, k, k + 1, <<>>)
                 ELSE /\ ~unit.ret.some
                      /\ args = L

\* parse_arg("Fh") found -Fh as the last token, returned nothing and left the list
C11_Witness ==
    /\ pc = "returned"
    /\ unit.fn = "parse_arg" /\ unit.option = Opt_Fh
    /\ unit.before = << <<"x">>, <<"/", "D", "A", "=", "1">>, <<"-", "F", "h">> >>
    /\ unit.ret = None
    /\ args = unit.before

\* the tokens find_index is tried on: bare switch characters, an option in both
\* forms, the same letter in the other case, without a switch character, cut
\* short, and a character of two bytes
FindTokens ==
    { <<"-">>,
      <<"/">>,
      <<"-", "T">>,
      <<"/", "T", "x">>,
      <<"-", "t", "x">>,
      <<"T">>,
      <<"/", "V">>,
      <<"U+00E9">> }

\* ParseOpt::new on any list of up to MaxList of these tokens
InitFind ==
    /\ args \in SeqsUpTo(FindTokens, MaxList)
    /\ argv = args
    /\ pc = "unit"
    /\ model = None
    /\ entry_point = None
    /\ variable_name = None
    /\ output_file = None
    /\ defines = <<>>
    /\ d3d_defines = <<>>
    /\ input_file = None
    /\ call = NoCall
    /\ hr = "none"
    /\ blobs = NoBlobs
    /\ data = <<>>
    /\ file = NoFile
    /\ stderr = <<>>
    /\ stdout = <<>>
    /\ exit_code = None
    /\ ret = "none"
    /\ unit = NoUnit
    /\ err = NoErr
    /\ fxc = NoFxc

SpecFind == InitFind /\ [][NextUnit]_vars

\* what find_index is claimed to return on list L for option o
LowestNaming(L, o) ==
    IF Naming(L, o) = {} THEN NoIndex ELSE [some |-> TRUE, v |-> Least(Naming(L, o)) - 1]

\* C12 as claimed: find_index returns the lowest index of a token that has more
\* than one character, starts with - or / and goes on with o, nothing when there
\* is none; a one-character token never matches; and when an option occurs twice
\* only the first occurrence is consumed, the later one staying in the list.
C12_FirstMatchOnly ==
    pc = "returned" =>
        LET o == unit.option
            L == unit.before
            M == Naming(L, o)
        IN  /\ unit.fn = "find_index" =>
                 /\ unit.ret = LowestNaming(L, o)
                 /\ unit.ret.some => Len(L[unit.ret.v + 1]) > 1
            /\ (unit.fn \in {"parse_one", "parse_arg"} /\ Cardinality(M) >= 2 /\ unit.ret.some) =>
                 Cardinality(Naming(args, o)) = Cardinality(M) - 1

\* C12, amended: as above, but a later occurrence stays in the list unless it is
\* the token right after a first occurrence without attached value, which
\* parse_arg takes as that option's value.
C12_FirstMatchAmended ==
    pc = "returned" =>
        LET o == unit.option
            L == unit.before
            M == Naming(L, o)
        IN  /\ unit.fn = "find_index" =>
                 /\ unit.ret = LowestNaming(L, o)
                 /\ unit.ret.some => Len(L[unit.ret.v + 1]) > 1
            /\ (unit.fn \in {"parse_one", "parse_arg"} /\ Cardinality(M) >= 2 /\ unit.ret.some) =>
                 LET k == Least(M)
                     asValue == /\ unit.fn = "parse_arg"
                                /\ Len(L[k]) = Len(o) + 1
                                /\ k + 1 \in M
                 IN  IF asValue
                     THEN /\ unit.ret = Some(L[k + 1])
                          /\ args = Replace(L, k, k + 1, <<>>)
                          /\ Cardinality(Naming(args, o)) = Cardinality(M) - 2
                     ELSE /\ Cardinality(Naming(args, o)) = Cardinality(M) - 1
                          /\ \A j \in M \ {k} : \E i \in Naming(args, o) : args[i] = L[j]

\* parse_arg("T") on -T, T, /Tx: the plain T is taken as the value of -T, the
\* later /Tx stays
C12_Witness ==
    /\ pc = "returned"
    /\ unit.fn = "parse_arg" /\ unit.option = Opt_T
    /\ unit.before = << <<"-", "T">>, <<"T">>, <<"/", "T", "x">> >>
    /\ unit.ret = Some(<<"T">>)
    /\ args = << <<"/", "T", "x">> >>

\* ------------------------------------------------------------------ main, further claims

\* the command line holds a help token
HelpAsked == Naming(argv, Opt_help) # {} \/ Naming(argv, Opt_helpword) # {}

\* the command line has no token naming o
Absent(o) == Naming(argv, o) = {}

\* the only token naming o is the last of the command line and has no value
BareLast(o) ==
    /\ Naming(argv, o) = {Len(argv)}
    /\ Len(argv[Len(argv)]) = Len(o) + 1

\* C13: argument checks run in a fixed order and the first failing one decides
\* the message.  A run that ended: with a help token anywhere it printed the help
\* text and nothing else; otherwise the first item without a value in the order
\* model, entryPoint, outputFile, inputFile is the one reported, alone on the
\* error stream, with every earlier item parsed and no later one; too many files
\* is reported only with all four parsed; an option that is absent, or whose
\* only token is the last one and bare, counts as missing.
C13_FirstFailingCheckDecides ==
    pc = "done" =>
        /\ HelpAsked <=> ret = "help"
        /\ ret = "help" =>
              /\ stderr = UsageArgLines /\ stdout = <<>>
              /\ ~model.some /\ ~entry_point.some /\ ~output_file.some /\ ~input_file.some
        /\ (~HelpAsked /\ (Absent(Opt_T) \/ BareLast(Opt_T))) => ret = "missing model"
        /\ (~HelpAsked /\ model.some /\ (Absent(Opt_E) \/ BareLast(Opt_E))) =>
              ret = "missing entryPoint"
        /\ (~HelpAsked /\ model.some /\ entry_point.some
               /\ (Absent(Opt_Fh) \/ BareLast(Opt_Fh))) => ret = "missing outputFile"
        /\ ret = "missing model" =>
              /\ stderr = <<UsageMissingLine("model")>>
              /\ ~model.some /\ ~entry_point.some /\ ~output_file.some /\ ~input_file.some
        /\ ret = "missing entryPoint" =>
              /\ stderr = <<UsageMissingLine("entryPoint")>>
              /\ model.some /\ ~entry_point.some /\ ~output_file.some /\ ~input_file.some
        /\ ret = "missing outputFile" =>
              /\ stderr = <<UsageMissingLine("outputFile")>>
              /\ model.some /\ entry_point.some /\ ~output_file.some /\ ~input_file.some
        /\ ret = "missing inputFile" =>
              /\ stderr = <<UsageMissingLine("inputFile")>>
              /\ model.some /\ entry_point.some /\ output_file.some /\ ~input_file.some
              /\ LeftAfterOptions(argv) = <<>>
        /\ ret = "too many" =>
              /\ model.some /\ entry_point.some /\ output_file.some /\ input_file.some
              /\ Len(LeftAfterOptions(argv)) >= 2
              /\ stderr[1] = <<Lit("fxc2: Unhandled arguments:")>>
              /\ stderr[Len(stderr)] = UsageTooManyLine
        /\ ret \notin ParseErrors =>
              /\ model.some /\ entry_point.some /\ output_file.some /\ input_file.some
              /\ Len(LeftAfterOptions(argv)) = 1

\* a complete command line followed by /? ended with the help text
C13_Witness ==
    /\ pc = "done" /\ ret = "help"
    /\ argv = BaseLine \o << <<"/", "?">> >>
    /\ stderr = UsageArgLines
    /\ call = NoCall

\* ------------------------------------------------------------------ the order of the options

\* most units of a command line
MaxUnits == 5

\* the units command lines are made of: an option with its value, attached or as
\* the next token, a switch, a plain token
OrderUnits ==
    { << <<"/", "T">>, <<"x">> >>,
      << <<"-", "E", "m", "a", "i", "n">> >>,
      << <<"/", "F", "h">>, <<"o">> >>,
      << <<"-", "V", "n">>, <<"T">> >>,
      << <<"-", "D">>, <<"E">> >>,
      << <<"/", "?">> >>,
      << <<"i", "n">> >>,
      << <<"a">> >> }

RECURSIVE Flatten(_)
\* the tokens of a sequence of units
Flatten(us) == IF us = <<>> THEN <<>> ELSE Head(us) \o Flatten(Tail(us))

\* the command lines of up to n different units, in every order
OrderLines(n) ==
    {Flatten(us) : us \in {x \in SeqsUpTo(OrderUnits, n) :
                              \A i, j \in 1..Len(x) : x[i] = x[j] => i = j}}

\* main started on one of these command lines
InitOrder ==
    /\ argv \in OrderLines(MaxUnits)
    /\ args = argv
    /\ pc = "help"
    /\ model = None
    /\ entry_point = None
    /\ variable_name = None
    /\ output_file = None
    /\ defines = <<>>
    /\ d3d_defines = <<>>
    /\ input_file = None
    /\ call = NoCall
    /\ hr = "none"
    /\ blobs = NoBlobs
    /\ data = <<>>
    /\ file = NoFile
    /\ stderr = <<>>
    /\ stdout = <<>>
    /\ exit_code = None
    /\ ret = "none"
    /\ unit = NoUnit
    /\ err = NoErr
    /\ fxc = NoFxc

\* main.rs 176-262: the steps of main up to the compile call
NextOrder ==
    \/ Help \/ Nologo \/ Model \/ Entry \/ Vn \/ Fh \/ Vi \/ Define
    \/ Input \/ TooMany \/ Unhandled \/ VarName

SpecOrder == InitOrder /\ [][NextOrder]_vars

RECURSIVE UnitsOf(_)
\* the units of command line a: a detached option stays with the token after it
UnitsOf(a) ==
    IF a = <<>> THEN <<>>
    ELSE IF IsBare(a[1]) /\ Len(a) >= 2
    THEN <<SubSeq(a, 1, 2)>> \o UnitsOf(SubSeq(a, 3, Len(a)))
    ELSE <<SubSeq(a, 1, 1)>> \o UnitsOf(Tail(a))

\* units i and i + 1 in the other order
SwapAt(us, i) ==
    [j \in 1..Len(us) |-> IF j = i THEN us[i + 1] ELSE IF j = i + 1 THEN us[i] ELSE us[j]]

\* the argument parsing is over: an error return, or the compile call is next
ParseOver == ret \in ParseErrors \/ pc = "compile"

\* each of -T, -E, -Fh, -Vn occurs at most once, and every detached option is
\* followed by a plain token
OrderPre ==
    /\ \A o \in {Opt_T, Opt_E, Opt_Fh, Opt_Vn} : Cardinality(Naming(argv, o)) <= 1
    /\ DetachedValuesPlain(argv)

\* the value the one token of a naming o carries
ValueOf(a, o) ==
    LET k == Least(Naming(a, o)) IN
    IF Len(a[k]) > Len(o) + 1 THEN SubSeq(a[k], Len(o) + 2, Len(a[k])) ELSE a[k + 1]

\* a parsed option holds the value of its own token
OwnValues ==
    /\ (model.some /\ ~Absent(Opt_T)) => model.v = ValueOf(argv, Opt_T)
    /\ (entry_point.some /\ ~Absent(Opt_E)) => entry_point.v = ValueOf(argv, Opt_E)
    /\ (output_file.some /\ ~Absent(Opt_Fh)) => output_file.v = ValueOf(argv, Opt_Fh)
    /\ (variable_name.some /\ ~Absent(Opt_Vn)) => variable_name.v = ValueOf(argv, Opt_Vn)
    /\ model.some => ~Absent(Opt_T)
    /\ entry_point.some => ~Absent(Opt_E)
    /\ output_file.some => ~Absent(Opt_Fh)

MaxDefineLen == 4

\* the characters -D values are made of
DefineChars == {"A", "=", "1"}

\* the tokens before the define on these command lines
DefineHead == << <<"/", "T", "x">>, <<"-", "E", "m", "a", "i", "n">>, <<"/", "F", "h", "o">> >>

\* main at the -D loop of main.rs 206, on a command line that ends with -D and
\* any value of up to MaxDefineLen characters
InitDefine ==
    /\ \E v \in SeqsUpTo(DefineChars, MaxDefineLen) :
          /\ argv = DefineHead \o << <<"-", "D">>, v >>
          /\ args = << <<"-", "D">>, v >>
    /\ pc = "define"
    /\ model = Some(<<"x">>)
    /\ entry_point = Some(<<"m", "a", "i", "n">>)
    /\ variable_name = None
    /\ output_file = Some(<<"o">>)
    /\ defines = <<>>
    /\ d3d_defines = <<>>
    /\ input_file = None
    /\ call = NoCall
    /\ hr = "none"
    /\ blobs = NoBlobs
    /\ data = <<>>
    /\ file = NoFile
    /\ stderr = <<>>
    /\ stdout = <<>>
    /\ exit_code = None
    /\ ret = "none"
    /\ unit = NoUnit
    /\ err = NoErr
    /\ fxc = NoFxc

SpecDefine == InitDefine /\ [][Define]_vars

\* the positions of = in s
Equals(s) == {i \in 1..Len(s) : s[i] = "="}

\* C15: each -D value is split at = into a name/value pair.  The name is the text
\* before the first = (all of it without one), the value the text between the
\* first and the second = (up to the end with only one), "1" without any =; what
\* follows a second = is dropped, and a value beginning with = has the empty name.
C15_DefineSplit ==
    (Len(argv) = 5 /\ argv[4] = <<"-", "D">> /\ (defines # <<>> \/ pc = "input")) =>
        LET arg == argv[5]
            eq == Equals(arg)
        IN  /\ Len(defines) = 1
            /\ args = <<>>
            /\ eq = {} => defines[1] = <<arg, <<"1">>>>
            /\ eq # {} =>
                 LET first == Least(eq)
                     later == eq \ {first}
                     stop == IF later = {} THEN Len(arg) + 1 ELSE Least(later)
                 IN  /\ defines[1][1] = SubSeq(arg, 1, first - 1)
                     /\ defines[1][2] = SubSeq(arg, first + 1, stop - 1)
                     /\ \A i \in 1..Len(defines[1][2]) : defines[1][2][i] # "="
                     /\ first = 1 => defines[1][1] = <<>>
            /\ \A i \in 1..Len(defines[1][1]) : defines[1][1][i] # "="
            /\ pc = "input" =>
                 d3d_defines = << [Name |-> Some(defines[1][1]), Definition |-> Some(defines[1][2])],
                                  [Name |-> None, Definition |-> None] >>

\* -D A=1= gave the pair A, 1: the second = and what follows are gone
C15_Witness ==
    /\ pc = "input"
    /\ argv[5] = <<"A", "=", "1", "=">>
    /\ defines = << <<<<"A">>, <<"1">>>> >>

\* ------------------------------------------------------------------ termination of the parsing

\* main.rs 176-262 on the command lines of Init
SpecParse == Init /\ [][NextOrder]_vars

\* how far main has come: the statements of main.rs 176-262 in their order
StageOf(p) ==
    CASE p = "help" -> 1 [] p = "nologo" -> 2 [] p = "model" -> 3 [] p = "entry" -> 4
      [] p = "vn" -> 5 [] p = "fh" -> 6 [] p = "vi" -> 7 [] p = "define" -> 8
      [] p = "input" -> 9 [] p = "toomany" -> 10 [] p = "unhandled" -> 11
      [] p = "varname" -> 12 [] p = "compile" -> 13 [] p = "done" -> 14

\* C16: argument parsing terminates for every finite argument list.  No step of
\* main lengthens the list; a step whose parse_one, parse_arg or get returned a
\* value (an option parsed, a turn of the -D loop or of the loop that prints the
\* unhandled arguments) strictly shortens it; every step either moves main on
\* to a later statement or is a turn of one of the two loops, which shortens the
\* list; so the turns of either loop and the tokens left never exceed the tokens
\* of the command line, and main is never at a statement it cannot leave.
C16_ParsingTerminates ==
    /\ [][/\ Len(args') <= Len(args)
          /\ \/ StageOf(pc') > StageOf(pc)
             \/ /\ pc' = pc /\ pc \in {"define", "unhandled"}
                /\ Len(args') < Len(args)
          /\ (pc = "help" /\ ret' = "help") => Len(args') < Len(args)
          /\ (pc = "model" /\ model'.some) => Len(args') < Len(args)
          /\ (pc = "entry" /\ entry_point'.some) => Len(args') < Len(args)
          /\ (pc = "vn" /\ variable_name'.some) => Len(args') < Len(args)
          /\ (pc = "fh" /\ output_file'.some) => Len(args') < Len(args)
          /\ (pc = "define" /\ defines' # defines) => Len(args') < Len(args)
          /\ (pc = "input" /\ input_file'.some) => Len(args') < Len(args)]_vars
    /\ [](Len(defines) + Len(args) <= Len(argv))
    /\ [](pc = "unhandled" => (Len(stderr) - 1) + Len(args) <= Len(argv))
    /\ [](ParseOver <=> pc \in {"compile", "done"})

\* both loops have turned: two defines were taken, one unhandled argument was
\* printed, and the parsing is over
C16_Witness ==
    /\ pc = "done" /\ ret = "too many"
    /\ Len(defines) = 2
    /\ Len(stderr) = 3
    /\ args = <<>>

\* ------------------------------------------------------------------ the header on its own

\* most bytes of the compiled blob
MaxBytes == 7

\* the bytes blobs are made of: 7, -128 and -1 as i8
Bytes == {7, 128, 255}

\* the library answers with success and any blob of up to MaxBytes of these bytes
ByteOutcomes ==
    {[hr |-> "ok", output |-> Some(b), errors |-> None] : b \in SeqsUpTo(Bytes, MaxBytes)}

\* main.rs 264-299 with these answers
CompileBytes == CompileWith(ByteOutcomes)

\* main on the base command line
InitHeader == Init /\ argv = BaseLine

\* main.rs 176-346 on a command line with one input file
NextHeader ==
    \/ Help \/ Nologo \/ Model \/ Entry \/ Vn \/ Fh \/ Vi \/ Define \/ Input \/ TooMany
    \/ VarName \/ CompileBytes \/ CheckHr \/ Output \/ Create \/ Write \/ Finish

SpecHeader == InitHeader /\ [][NextHeader]_vars

\* byte b read as a signed 8-bit value
Signed(b) == IF b < 128 THEN b ELSE b - 256

DigitValue(c) ==
    CASE c = "0" -> 0 [] c = "1" -> 1 [] c = "2" -> 2 [] c = "3" -> 3 [] c = "4" -> 4
      [] c = "5" -> 5 [] c = "6" -> 6 [] c = "7" -> 7 [] c = "8" -> 8 [] c = "9" -> 9

RECURSIVE Unsigned(_)
\* the number a non-empty sequence of digits denotes
Unsigned(cs) ==
    IF Len(cs) = 1 THEN DigitValue(cs[1])
    ELSE 10 * Unsigned(SubSeq(cs, 1, Len(cs) - 1)) + DigitValue(cs[Len(cs)])

\* cs is v in decimal, right-aligned in exactly four columns
Shows(cs, v) ==
    /\ Len(cs) = 4
    /\ \E k \in 0..3 :
         /\ \A j \in 1..k : cs[j] = " "
         /\ LET num == SubSeq(cs, k + 1, 4)
                digits == IF num[1] = "-" THEN Tail(num) ELSE num
            IN  /\ digits # <<>>
                /\ \A j \in 1..Len(digits) :
                      digits[j] \in {"0", "1", "2", "3", "4", "5", "6", "7", "8", "9"}
                /\ (Len(digits) > 1 => digits[1] # "0")
                /\ (num[1] = "-") <=> v < 0
                /\ Unsigned(digits) = (IF v < 0 THEN 0 - v ELSE v)

\* where the text of byte i (from 0) stands in the body: every byte before it
\* has its comma, every sixth its line break
PlaceOf(i) == 1 + 2 * i + (i \div 6)

\* C17: the header body lists every compiled byte exactly once, in order, as a
\* signed 8-bit value right-aligned to width 4.  In a header written to the end,
\* between the opening and the closing line, byte i (from 0) of the n bytes stands
\* at its place as Signed(b) in four columns, followed by a comma unless it is
\* the last byte, then by a line break exactly when i mod 6 = 5; there are
\* max(n - 1, 0) commas and n values in all, and for no byte only the opening
\* and the closing line.
C17_HeaderBody ==
    (pc \in {"finish", "done"} /\ ret \in {"none", "success"}) =>
        LET n == Len(data)
            text == file.text
            body == SubSeq(text, 4, Len(text) - 1)
        IN  /\ data = blobs.output.v
            /\ SubSeq(text, 1, 3) = <<Lit("const BYTE "), Txt(variable_name.v), Lit("[] =\n{\n")>>
            /\ text[Len(text)] = Lit("\n};")
            /\ Len(body) = n + (IF n = 0 THEN 0 ELSE n - 1) + (n \div 6)
            /\ n = 0 => text = <<Lit("const BYTE "), Txt(variable_name.v), Lit("[] =\n{\n"),
                                 Lit("\n};")>>
            /\ Cardinality({j \in 1..Len(body) : body[j] = Lit(",")}) =
                  (IF n = 0 THEN 0 ELSE n - 1)
            /\ Cardinality({j \in 1..Len(body) : body[j].kind = "txt"}) = n
            /\ Cardinality({j \in 1..Len(body) : body[j] = Lit("\n")}) = n \div 6
            /\ \A i \in 0..(n - 1) :
                  LET p == PlaceOf(i)
                      q == IF i # n - 1 THEN p + 1 ELSE p
                  IN  /\ body[p].kind = "txt"
                      /\ Shows(body[p].chars, Signed(data[i + 1]))
                      /\ i # n - 1 => body[p + 1] = Lit(",")
                      /\ i % 6 = 5 => body[q + 1] = Lit("\n")
                      /\ (i % 6 # 5 /\ q + 1 <= Len(body)) => body[q + 1].kind = "txt"

\* the header of -128, -1, 7, 7, 7, 7, 7 was written: six commas, one line break
C17_Witness ==
    /\ pc = "done" /\ ret = "success"
    /\ data = <<128, 255, 7, 7, 7, 7, 7>>
    /\ Len(file.text) = 18
    /\ file.text[4] = Txt(<<"-", "1", "2", "8">>)
    /\ file.text[16] = Lit("\n")

\* ------------------------------------------------------------------ compile.rs, bin/fxc.rs

\* most bytes of a path handed to Compile
MaxPath == 3

\* the bytes paths are made of: NUL, / and B
PathBytes == {0, 47, 66}

\* what canonicalize("Blit.vs") can give: absolute paths, as the system has them
CanonicalPaths == {<<47, 66>>, <<47, 66, 47, 66>>}

\* the path bytes contain a NUL
HasNul(p) == \E i \in 1..Len(p) : p[i] = 0

\* input_file.display()
PathText(p) == [kind |-> "path", text |-> "", chars |-> p]

\* bin/fxc.rs main about to start, or Compile about to be called by any caller
\* with any path of up to MaxPath bytes
InitFxc ==
    /\ \/ /\ pc = "fxc"
          /\ fxc = [NoFxc EXCEPT !.caller = "main"]
       \/ /\ pc = "open"
          /\ \E p \in SeqsUpTo(PathBytes, MaxPath) :
                fxc = [NoFxc EXCEPT !.caller = "lib", !.path = p]
    /\ argv = <<>>
    /\ args = <<>>
    /\ model = None
    /\ entry_point = None
    /\ variable_name = None
    /\ output_file = None
    /\ defines = <<>>
    /\ d3d_defines = <<>>
    /\ input_file = None
    /\ call = NoCall
    /\ hr = "none"
    /\ blobs = NoBlobs
    /\ data = <<>>
    /\ file = NoFile
    /\ stderr = <<>>
    /\ stdout = <<>>
    /\ exit_code = None
    /\ ret = "none"
    /\ unit = NoUnit
    /\ err = NoErr

\* what Compile and the main of bin/fxc leave alone
FxcUnchanged ==
    UNCHANGED <<argv, args, model, entry_point, variable_name, output_file, defines,
                d3d_defines, input_file, call, hr, blobs, data, file, unit, err>>

\* bin/fxc.rs 536: canonicalize("Blit.vs").unwrap(), then the call of Compile
Canonicalize ==
    /\ pc = "fxc"
    /\ \/ /\ \E p \in CanonicalPaths : fxc' = [fxc EXCEPT !.path = p]
          /\ pc' = "open"
          /\ UNCHANGED <<stderr, exit_code, ret>>
       \/ /\ Panic("called Result::unwrap() on an Err value")
          /\ UNCHANGED fxc
    /\ UNCHANGED stdout
    /\ FxcUnchanged

\* compile.rs 15-18: err_func, and the return of its error
ReturnFailedToOpen ==
    /\ stderr' = Append(stderr, <<Lit("failed to open file: "), PathText(fxc.path)>>)
    /\ pc' = "returned"

\* compile.rs 19-22: File::open
Open ==
    /\ pc = "open"
    /\ \/ /\ fxc' = [fxc EXCEPT !.open = "ok"]
          /\ pc' = "metadata"
          /\ UNCHANGED stderr
       \/ /\ fxc' = [fxc EXCEPT !.open = "err", !.result = "Err"]
          /\ ReturnFailedToOpen
    /\ UNCHANGED <<stdout, exit_code, ret>>
    /\ FxcUnchanged

\* compile.rs 23-26 with `Err(err) => return Err(..)`: a metadata failure ends
\* the call
Metadata_Checked ==
    /\ pc = "metadata"
    /\ \/ /\ fxc' = [fxc EXCEPT !.meta = "ok"]
          /\ pc' = "read"
       \/ /\ fxc' = [fxc EXCEPT !.meta = "err", !.result = "Err"]
          /\ pc' = "returned"
    /\ UNCHANGED <<stderr, stdout, exit_code, ret>>
    /\ FxcUnchanged

\* compile.rs 23-26: file.metadata(); a failure gives Vec::new()
Metadata ==
    /\ pc = "metadata"
    /\ \E m \in {"ok", "err"} : fxc' = [fxc EXCEPT !.meta = m]
    /\ pc' = "read"
    /\ UNCHANGED <<stderr, stdout, exit_code, ret>>
    /\ FxcUnchanged

\* compile.rs 28-31: file.read_to_end
Read ==
    /\ pc = "read"
    /\ \/ /\ fxc' = [fxc EXCEPT !.read = "ok"]
          /\ pc' = "cstring"
          /\ UNCHANGED stderr
       \/ /\ fxc' = [fxc EXCEPT !.read = "err", !.result = "Err"]
          /\ ReturnFailedToOpen
    /\ UNCHANGED <<stdout, exit_code, ret>>
    /\ FxcUnchanged

\* compile.rs 33-35: CString::new(..)?, println!, Ok(())
FileName ==
    /\ pc = "cstring"
    /\ IF HasNul(fxc.path)
       THEN /\ fxc' = [fxc EXCEPT !.result = "Err"]
            /\ UNCHANGED stdout
       ELSE /\ fxc' = [fxc EXCEPT !.result = "Ok"]
            /\ stdout' = Append(stdout, <<Lit("file_name: "), PathText(fxc.path)>>)
    /\ pc' = "returned"
    /\ UNCHANGED <<stderr, exit_code, ret>>
    /\ FxcUnchanged

\* bin/fxc.rs 537-546: the match on what Compile returned
Match ==
    /\ pc = "returned"
    /\ fxc.caller = "main"
    /\ IF fxc.result = "Err"
       THEN /\ stderr' = stderr \o << <<Lit("Got an error while compiling:")>>,
                                      <<[kind |-> "error", text |-> "", chars |-> <<>>]>> >>
            /\ Return(FAILURE, "compile error")
       ELSE /\ Return(SUCCESS, "success")
            /\ UNCHANGED stderr
    /\ UNCHANGED <<stdout, fxc>>
    /\ FxcUnchanged

NextFxc == Canonicalize \/ Open \/ Metadata \/ Read \/ FileName \/ Match

SpecFxc == InitFxc /\ [][NextFxc]_vars

\* what Compile is claimed to do, once it has returned
CompileAsClaimed ==
    pc \in {"returned", "done"} /\ fxc.result # "none" =>
        /\ fxc.result \in {"Ok", "Err"}
        /\ fxc.result = "Err" <=>
              (fxc.open = "err" \/ fxc.read = "err" \/ HasNul(fxc.path))
        /\ (fxc.open = "err" \/ fxc.read = "err") =>
              \E i \in 1..Len(stderr) :
                  stderr[i] = <<Lit("failed to open file: "), PathText(fxc.path)>>
        /\ (fxc.meta = "err" /\ fxc.read = "ok" /\ ~HasNul(fxc.path)) => fxc.result = "Ok"

\* C18 as claimed: Compile returns an error, after printing failed to open file,
\* when the file cannot be opened or read to the end, and an error when the path
\* holds a NUL; a metadata failure is no error; in every other case it returns
\* Ok.  The main of bin/fxc exits with the failure code exactly when Compile
\* returned an error and with success otherwise.
C18_CompileResult ==
    /\ CompileAsClaimed
    /\ (pc = "done" /\ fxc.caller = "main") =>
          /\ exit_code = Some(FAILURE) <=> fxc.result = "Err"
          /\ exit_code = Some(SUCCESS) <=> fxc.result # "Err"

\* C18, amended: the same of Compile.  The main of bin/fxc, when
\* canonicalize("Blit.vs") succeeded, exits with the failure code exactly when
\* Compile returned an error and with success otherwise; when it failed, main
\* panics, with exit code 101 and its message on the error stream, and Compile
\* is never called.
C18_CompileResultAmended ==
    /\ CompileAsClaimed
    /\ (pc = "done" /\ fxc.caller = "main" /\ ret # "panic") =>
          /\ fxc.path \in CanonicalPaths
          /\ exit_code = Some(FAILURE) <=> fxc.result = "Err"
          /\ exit_code = Some(SUCCESS) <=> fxc.result = "Ok"
    /\ (pc = "done" /\ fxc.caller = "main" /\ ret = "panic") =>
          /\ exit_code = Some(PANIC)
          /\ fxc = [NoFxc EXCEPT !.caller = "main"]
          /\ stderr # <<>> /\ stdout = <<>>

\* the main of bin/fxc returned success though the metadata could not be had
C18_Witness ==
    /\ pc = "done" /\ fxc.caller = "main"
    /\ fxc.meta = "err" /\ fxc.result = "Ok"
    /\ exit_code = Some(SUCCESS)

====
